---------------------------- MODULE Spec2Model ----------------------------
(***************************************************************************)
(* Zero-shot image classification pipeline of generic-image-classifier.    *)
(*                                                                         *)
(*   AppFacade -> ClassifierProcessor.process -> ZeroShotClassifier        *)
(*   (src/facade.py, src/core/ml/classifier.py)                            *)
(*                                                                         *)
(* One ZeroShotClassifier is built when the router module is imported and  *)
(* is shared by every request.  A request is set_classes(labels) followed  *)
(* by classify_image(image_array); both read and write the fields classes  *)
(* and prompts of the shared object.  The steps of a request are the       *)
(* points at which it reads or writes one of these fields.                 *)
(***************************************************************************)
EXTENDS Integers, Sequences, FiniteSets, TLC

(***************************************************************************)
(* Bounds of the model.                                                    *)
(***************************************************************************)
MaxLen == 3                   \* longest label list of a request served alone

MaxConcLen == 2               \* longest label list of a concurrent request

MaxHistLen == 2               \* longest label list when an earlier call is remembered

MaxMetaLen == 1               \* longest label list in the metadata of an HTTP request

MaxPermLen == 3               \* longest label list whose rearrangements are compared

Labels == {"cat", "dog"}
Requests == {1, 2}            \* requests in flight on the shared instance

\* kwargs.get('labels') when the caller's metadata holds no labels: None.
NoneLabels == <<"<None>">>

ListsOver(ls, m) == UNION {[1..k -> ls] : k \in 0..m}

LabelLists == ListsOver(Labels, MaxLen)

LabelInputs == LabelLists \cup {NoneLabels}

HistInputs == ListsOver(Labels, MaxHistLen) \cup {NoneLabels}

\* The labels of the requests whose label sets are given in several orders.
PermLabels == {"cat", "dog", "car"}

\* A label set with more orders than one: a list of two or more unique labels.
PermInputs ==
    {ls \in ListsOver(PermLabels, MaxPermLen) :
        /\ Len(ls) >= 2
        /\ \A i, j \in DOMAIN ls : i # j => ls[i] # ls[j]}

\* Concurrent requests with disjoint label sets: each has labels of its own.
OwnLabels(r) == IF r = 1 THEN {"cat"} ELSE {"dog"}

DisjointInputs(r) == ListsOver(OwnLabels(r), MaxConcLen)

Range(s) == {s[k] : k \in DOMAIN s}

(***************************************************************************)
(* Numbers.  A raw similarity is a code c: codes 2k and 2k+1 are two       *)
(* float32 values one unit in the last place apart (0.2 and 0.2 + 2^-26,   *)
(* say), code 2k+2 is ln(5/2) above code 2k.  torch.softmax works in       *)
(* float32: it subtracts the greatest similarity, takes exp, adds the      *)
(* exponentials one after the other in list order, each partial sum        *)
(* rounded to float32, and divides.  A weight is a float32 written as a    *)
(* whole number of units of 2^-25.  exp of two values one ulp apart rounds  *)
(* to the same float, so the weight goes by the level c \div 2 of a code:  *)
(* ExpTable gives the weight 1.0 to the level of the greatest similarity   *)
(* and the float32 next to 0.4 that exp gives one level below it.  A       *)
(* confidence is a fixed-point number with ProbScale units to 1.0.         *)
(***************************************************************************)
ExpTable == <<33554432, 13421771>>

SimCodes == 0 .. (2 * Len(ExpTable) - 1)

ProbScale == 10000000

\* The float nan: what dividing a zero vector by its norm gives, and every
\* number computed from it.
NaN == -1

\* The quotient and the remainder of a * w by b, a taken digit by digit in
\* base 8 so that no product leaves the machine integers: <<tq, tr>> is the
\* current power of 8 times w, <<q, r>> what is added up so far.
RECURSIVE MulDivMod(_, _, _, _, _, _)
MulDivMod(a, b, tq, tr, q, r) ==
    IF a = 0 THEN <<q, r>>
    ELSE MulDivMod(a \div 8, b,
                   8 * tq + (8 * tr) \div b, (8 * tr) % b,
                   q + (a % 8) * tq + (r + (a % 8) * tr) \div b,
                   (r + (a % 8) * tr) % b)

\* ProbScale * w / b to the nearest unit of confidence.
RoundDiv(w, b) ==
    LET qr == MulDivMod(ProbScale, b, w \div b, w % b, 0, 0)
    IN  IF 2 * qr[2] >= b THEN qr[1] + 1 ELSE qr[1]

\* The spacing of the float32 values around x: a float32 has 24 significant bits.
RECURSIVE Ulp(_, _)
Ulp(x, g) == IF x < (2 ^ 24) * g THEN g ELSE Ulp(x, 2 * g)

\* x rounded to the nearest float32, a tie going to the even significand.
Float32(x) ==
    LET g == Ulp(x, 1)
        q == x \div g
    IN  IF 2 * (x % g) < g THEN q * g
        ELSE IF 2 * (x % g) > g THEN (q + 1) * g
        ELSE IF q % 2 = 0 THEN q * g ELSE (q + 1) * g

\* The exact sum of a sequence of numbers.
RECURSIVE SumSeq(_)
SumSeq(s) == IF s = <<>> THEN 0 ELSE Head(s) + SumSeq(Tail(s))

\* The float32 sum of the weights s added to acc one after the other, in
\* list order.
RECURSIVE SumFloat32(_, _)
SumFloat32(acc, s) ==
    IF s = <<>> THEN acc ELSE SumFloat32(Float32(acc + Head(s)), Tail(s))

\* exp(c - m) in float32, m being the greatest similarity of the vector.
ExpWeight(c, m) == ExpTable[(m \div 2) - (c \div 2) + 1]

\* Mutant: the exponentials divided by their maximum instead of their sum.
to_probabilities_unnormalised(similarity_scores) ==
    LET m == CHOOSE x \in Range(similarity_scores) :
                 \A y \in Range(similarity_scores) : y <= x
        w == [k \in DOMAIN similarity_scores |-> ExpWeight(similarity_scores[k], m)]
    IN  [k \in DOMAIN similarity_scores |-> RoundDiv(w[k], ExpWeight(m, m))]

\* ProbabilityConverter.to_probabilities: softmax over the similarity vector.
to_probabilities(similarity_scores) ==
    LET m == CHOOSE x \in Range(similarity_scores) :
                 \A y \in Range(similarity_scores) : y <= x
        w == [k \in DOMAIN similarity_scores |-> ExpWeight(similarity_scores[k], m)]
    IN  IF \E k \in DOMAIN similarity_scores : similarity_scores[k] = NaN
        THEN [k \in DOMAIN similarity_scores |-> NaN]
        ELSE [k \in DOMAIN similarity_scores |->
                 RoundDiv(w[k], SumFloat32(0, w))]

\* np.argmax: the first index that holds the maximum.
argmax(v) ==
    CHOOSE k \in DOMAIN v :
        /\ \A j \in DOMAIN v : v[j] <= v[k]
        /\ \A j \in DOMAIN v : j < k => v[j] < v[k]

\* The prompt template of set_classes: f"a photo of a {label}".
Template(label) == <<"a photo of a ", label>>

\* Mutant: one prompt for each different label.
RECURSIVE WithoutRepeats(_)
WithoutRepeats(cls) ==
    IF cls = <<>> THEN <<>>
    ELSE LET front == WithoutRepeats(SubSeq(cls, 1, Len(cls) - 1))
         IN  IF cls[Len(cls)] \in Range(front) THEN front
             ELSE Append(front, cls[Len(cls)])

make_prompts_deduplicated(cls) ==
    [k \in DOMAIN WithoutRepeats(cls) |-> Template(WithoutRepeats(cls)[k])]

make_prompts(cls) == [k \in DOMAIN cls |-> Template(cls[k])]

\* Mutant: an entry is put before the entries of equal confidence.
RECURSIVE InsertDescBeforeEqual(_, _)
InsertDescBeforeEqual(e, s) ==
    IF s = <<>> THEN <<e>>
    ELSE IF Head(s).confidence > e.confidence
         THEN <<Head(s)>> \o InsertDescBeforeEqual(e, Tail(s))
         ELSE <<e>> \o s

\* results.sort(key=confidence, reverse=True): stable, equal keys keep their order.
RECURSIVE InsertDesc(_, _)
InsertDesc(e, s) ==
    IF s = <<>> THEN <<e>>
    ELSE IF Head(s).confidence >= e.confidence
         THEN <<Head(s)>> \o InsertDesc(e, Tail(s))
         ELSE <<e>> \o s

\* Mutant: the sort without reverse=True.
RECURSIVE InsertAsc(_, _)
InsertAsc(e, s) ==
    IF s = <<>> THEN <<e>>
    ELSE IF Head(s).confidence <= e.confidence
         THEN <<Head(s)>> \o InsertAsc(e, Tail(s))
         ELSE <<e>> \o s

RECURSIVE sort_results_ascending(_)
sort_results_ascending(rs) ==
    IF rs = <<>> THEN <<>>
    ELSE InsertAsc(rs[Len(rs)], sort_results_ascending(SubSeq(rs, 1, Len(rs) - 1)))

\* Mutant: the list returned as it was built.
sort_results_omitted(rs) == rs

RECURSIVE sort_results(_)
sort_results(rs) ==
    IF rs = <<>> THEN <<>>
    ELSE InsertDesc(rs[Len(rs)], sort_results(SubSeq(rs, 1, Len(rs) - 1)))

model_name == "openai/clip-vit-base-patch32"

NoEntry == [label |-> "", confidence |-> -1]

NoOutcome ==
    [kind |-> "none", error |-> "", prediction |-> NoEntry,
     other_predictions |-> <<>>, model_name |-> ""]

Raised(err) == [NoOutcome EXCEPT !.kind = "error", !.error = err]

Returned(pred, rs) ==
    [kind |-> "result", error |-> "", prediction |-> pred,
     other_predictions |-> rs, model_name |-> model_name]

(***************************************************************************)
(* Image input resolution (src/utils/imageio.py, src/utils/imageio-v2.py). *)
(*                                                                         *)
(* A string is a sequence of tokens; the separators the code splits on     *)
(* and the prefixes it tests are tokens of their own.  A byte string is a  *)
(* sequence of chunks; an encoded image is a magic chunk followed by the   *)
(* chunk of its pixels.  A base64 quad is the text of one chunk.           *)
(***************************************************************************)
Arrays == {"A1", "A2"}

EmptyArray == "empty(0)"            \* np.empty(0)

NoArray == "-"

PngBytes(a) == <<"PNG", a>>

JpegBytes(a) == <<"JFIF", a>>

JunkBytes == <<"junk">>

\* base64 text of each chunk.
B64Dec == [q \in {"UE5H", "SkZJ", "QTEx", "QTIy", "anVu"} |->
              CASE q = "UE5H" -> "PNG"
                [] q = "SkZJ" -> "JFIF"
                [] q = "QTEx" -> "A1"
                [] q = "QTIy" -> "A2"
                [] q = "anVu" -> "junk"]

\* How many characters of the base64 alphabet a token holds.
AlphaCount(t) ==
    CASE t \in DOMAIN B64Dec -> 4
      [] t = "Q" -> 1
      [] t = "/srv/cat.png" -> 11
      [] t = "host/cat.png" -> 11
      [] t = "http://" -> 6
      [] t = "https://" -> 7
      [] t = "base64" -> 6
      [] t = "data" -> 4
      [] t = "image/png" -> 9
      [] OTHER -> 0

Str(t) == <<t>>

ImageJpeg == Str("image/jpeg")

ImagePng == Str("image/png")

NoMime == <<>>                      \* mime_type=None

DataHeader == <<"data", ":", "image/png", ";", "base64", ",">>

Strings ==
    { <<"http://", "host/cat.png">>,
      <<"https://", "host/cat.png">>,
      <<"/srv/cat.png">>,
      DataHeader \o <<"UE5H", "QTEx">>,
      DataHeader \o <<"UE5H", "Q">>,
      DataHeader \o <<"UE5H", "QTEx", ",", "anVu">>,
      <<"data", ":", "image/png", ",", "UE5H", "QTEx">>,
      <<"data", ":", "image/png", ";", "base64">>,
      <<"UE5H", "QTEx">>,
      <<"SkZJ", "QTIy">>,
      <<"UE5H", "!", "QTEx">>,
      <<"UE5H", "Q">>,
      <<"Q">>,
      <<"anVu">>,
      <<>> }

ByteStrings ==
    {PngBytes("A1"), JpegBytes("A2"), PngBytes("A1") \o JunkBytes, JunkBytes, <<>>}

Input(type, arr, bytes, text) ==
    [type |-> type, arr |-> arr, bytes |-> bytes, text |-> text]

Inputs ==
    {Input("ndarray", a, <<>>, <<>>) : a \in Arrays}
        \cup {Input("bytes", NoArray, b, <<>>) : b \in ByteStrings}
        \cup {Input("str", NoArray, <<>>, t) : t \in Strings}
        \cup {Input("other", NoArray, <<>>, <<>>)}

\* What the call finds outside: whether the string names an existing path,
\* what requests.get answers, what the file holds.
FetchFailed == [ok |-> FALSE, content |-> <<>>, ctype |-> NoMime]

Fetches ==
    {FetchFailed}
        \cup {[ok |-> TRUE, content |-> b, ctype |-> ImagePng] :
                 b \in {PngBytes("A1"), JunkBytes}}

FileUnreadable == [ok |-> FALSE, content |-> <<>>]

Files ==
    {FileUnreadable}
        \cup {[ok |-> TRUE, content |-> b] : b \in {JpegBytes("A2"), JunkBytes}}

Envs == [exists : BOOLEAN, fetch : Fetches, file : Files]

MimeHints == {NoMime, ImagePng}

\* The result of a step of the resolution: a value, or the exception raised.
Ok(array, mime) == [ok |-> TRUE, array |-> array, mime |-> mime, error |-> ""]

Fail(err) == [ok |-> FALSE, array |-> NoArray, mime |-> NoMime, error |-> err]

\* str.startswith with a prefix of one or two tokens.
startswith(text, prefix) ==
    /\ Len(text) >= Len(prefix)
    /\ SubSeq(text, 1, Len(prefix)) = prefix

FirstIndex(text, t) ==
    IF \E k \in DOMAIN text : text[k] = t
    THEN CHOOSE k \in DOMAIN text :
             text[k] = t /\ \A j \in 1..(k - 1) : text[j] # t
    ELSE 0

\* get_mime_type: mimetypes.guess_type(file_path)[0].  A data: URL gives the
\* type written before its first ';' or ',' (text/plain when that is no
\* type/subtype), None when it has no comma; any other string gives the type
\* of its extension, None without a known one.
get_mime_type(file_path) ==
    IF startswith(file_path, <<"data", ":">>)
    THEN LET url == SubSeq(file_path, 3, Len(file_path))
             comma == FirstIndex(url, ",")
             semi == FirstIndex(SubSeq(url, 1, comma - 1), ";")
             type == IF semi > 0 THEN SubSeq(url, 1, semi - 1)
                     ELSE SubSeq(url, 1, comma - 1)
         IN  IF comma = 0 THEN NoMime
             ELSE IF type = ImagePng THEN type
             ELSE Str("text/plain")
    ELSE IF /\ file_path # <<>>
            /\ file_path[Len(file_path)] \in {"/srv/cat.png", "host/cat.png"}
    THEN ImagePng
    ELSE NoMime

\* str.split(t, 1)
split_once(text, t) ==
    LET k == FirstIndex(text, t)
    IN  IF k = 0 THEN <<text>>
        ELSE <<SubSeq(text, 1, k - 1), SubSeq(text, k + 1, Len(text))>>

\* str.split(t)
RECURSIVE split(_, _)
split(text, t) ==
    LET k == FirstIndex(text, t)
    IN  IF k = 0 THEN <<text>>
        ELSE <<SubSeq(text, 1, k - 1)>> \o split(SubSeq(text, k + 1, Len(text)), t)

RECURSIVE AlphaLen(_)
AlphaLen(text) ==
    IF text = <<>> THEN 0 ELSE AlphaCount(Head(text)) + AlphaLen(Tail(text))

RECURSIVE DecodedChunks(_)
DecodedChunks(text) ==
    IF text = <<>> THEN <<>>
    ELSE (IF Head(text) \in DOMAIN B64Dec THEN <<B64Dec[Head(text)]>>
          ELSE IF AlphaCount(Head(text)) > 0 THEN <<"junk">>
          ELSE <<>>) \o DecodedChunks(Tail(text))

\* base64.b64decode: characters outside the alphabet are dropped; what is left
\* must be whole quads.
b64decode(text) ==
    IF AlphaLen(text) % 4 # 0
    THEN [ok |-> FALSE, bytes |-> <<>>, error |-> "binascii.Error"]
    ELSE [ok |-> TRUE, bytes |-> DecodedChunks(text), error |-> ""]

\* image_bytes_to_array: Image.open(BytesIO(image_bytes)), np.array(image).
\* The image is told by its leading bytes and decoded up to its end marker;
\* what follows the image is not read.
image_bytes_to_array(image_bytes) ==
    IF /\ Len(image_bytes) >= 2
       /\ image_bytes[1] \in {"PNG", "JFIF"}
       /\ image_bytes[2] \in Arrays
    THEN Ok(image_bytes[2], NoMime)
    ELSE Fail("UnidentifiedImageError")

\* image_url_to_array: requests.get(url), Image.open(BytesIO(response.content)).
image_url_to_array(url, env) ==
    IF ~env.fetch.ok THEN Fail("ConnectionError")
    ELSE image_bytes_to_array(env.fetch.content)

\* image_file_to_array: Image.open(image_path), np.array(image).
image_file_to_array(image_path, env) ==
    IF ~env.file.ok THEN Fail("OSError")
    ELSE image_bytes_to_array(env.file.content)

\* Mutant: the string decoded whole, header and all.
base64_to_bytes_header_kept(base64_str) ==
    LET d == b64decode(base64_str)
    IN  [ok |-> d.ok, bytes |-> d.bytes,
         mime |-> IF d.ok THEN Str("unknown") ELSE NoMime,
         error |-> d.error]

\* base64_to_bytes of imageio.py: (image_bytes, mime_type).
base64_to_bytes(base64_str) ==
    IF startswith(base64_str, <<"data", ":">>)
    THEN LET halves == split_once(base64_str, ";")
         IN  IF Len(halves) # 2 THEN [ok |-> FALSE, bytes |-> <<>>,
                                      mime |-> NoMime, error |-> "ValueError"]
             ELSE LET mime_type == split(halves[1], ":")[2]
                      parts == split(halves[2], ",")
                  IN  IF Len(parts) < 2
                      THEN [ok |-> FALSE, bytes |-> <<>>, mime |-> NoMime,
                            error |-> "IndexError"]
                      ELSE LET d == b64decode(parts[2])
                           IN  [ok |-> d.ok, bytes |-> d.bytes,
                                mime |-> IF d.ok THEN mime_type ELSE NoMime,
                                error |-> d.error]
    ELSE LET d == b64decode(base64_str)
         IN  [ok |-> d.ok, bytes |-> d.bytes,
              mime |-> IF d.ok THEN Str("unknown") ELSE NoMime,
              error |-> d.error]

\* image_base64_to_array of imageio.py: (image_array, mime_type).
image_base64_to_array(base64_str) ==
    LET b == base64_to_bytes(base64_str)
    IN  IF ~b.ok THEN Fail(b.error)
        ELSE LET a == image_bytes_to_array(b.bytes)
             IN  IF a.ok THEN Ok(a.array, b.mime) ELSE a

\* What a call of image_input_to_array gave: the pair returned or the
\* exception raised, and the variants it attempted, in order.
Resolved(r, attempted) ==
    [kind |-> IF r.ok THEN "return" ELSE "raise", array |-> r.array,
     mime |-> r.mime, error |-> r.error, attempted |-> attempted]

NoResolved ==
    [kind |-> "none", array |-> NoArray, mime |-> NoMime, error |-> "",
     attempted |-> <<>>]

\* Mutant: the path test before the URL test.
image_input_to_array_path_first(input_data, mime_type, env) ==
    IF input_data.type = "ndarray"
    THEN Resolved(Ok(input_data.arr, ImageJpeg), <<"array">>)
    ELSE IF input_data.type = "bytes"
    THEN LET a == image_bytes_to_array(input_data.bytes)
         IN  Resolved(IF a.ok
                      THEN Ok(a.array, IF mime_type # NoMime THEN mime_type
                                       ELSE ImageJpeg)
                      ELSE a, <<"bytes">>)
    ELSE IF input_data.type = "str"
    THEN IF env.exists
         THEN LET a == image_file_to_array(input_data.text, env)
              IN  Resolved(IF a.ok THEN Ok(a.array, ImageJpeg) ELSE a, <<"file">>)
         ELSE IF \/ startswith(input_data.text, <<"http://">>)
                 \/ startswith(input_data.text, <<"https://">>)
         THEN LET a == image_url_to_array(input_data.text, env)
              IN  Resolved(IF a.ok THEN Ok(a.array, ImageJpeg) ELSE a, <<"url">>)
         ELSE LET a == image_base64_to_array(input_data.text)
              IN  IF ~a.ok /\ a.error \in {"binascii.Error", "ValueError"}
                  THEN Resolved(Ok(EmptyArray, ImageJpeg), <<"base64">>)
                  ELSE Resolved(a, <<"base64">>)
    ELSE Resolved(Ok(EmptyArray, ImageJpeg), <<>>)

\* Mutant: the caller's mime hint returned for an array, as it is for bytes.
image_input_to_array_array_hinted(input_data, mime_type, env) ==
    IF input_data.type = "ndarray"
    THEN Resolved(Ok(input_data.arr, IF mime_type # NoMime THEN mime_type
                                     ELSE ImageJpeg), <<"array">>)
    ELSE IF input_data.type = "bytes"
    THEN LET a == image_bytes_to_array(input_data.bytes)
         IN  Resolved(IF a.ok
                      THEN Ok(a.array, IF mime_type # NoMime THEN mime_type
                                       ELSE ImageJpeg)
                      ELSE a, <<"bytes">>)
    ELSE IF input_data.type = "str"
    THEN IF \/ startswith(input_data.text, <<"http://">>)
            \/ startswith(input_data.text, <<"https://">>)
         THEN LET a == image_url_to_array(input_data.text, env)
              IN  Resolved(IF a.ok THEN Ok(a.array, ImageJpeg) ELSE a, <<"url">>)
         ELSE IF env.exists
         THEN LET a == image_file_to_array(input_data.text, env)
              IN  Resolved(IF a.ok THEN Ok(a.array, ImageJpeg) ELSE a, <<"file">>)
         ELSE LET a == image_base64_to_array(input_data.text)
              IN  IF ~a.ok /\ a.error \in {"binascii.Error", "ValueError"}
                  THEN Resolved(Ok(EmptyArray, ImageJpeg), <<"base64">>)
                  ELSE Resolved(a, <<"base64">>)
    ELSE Resolved(Ok(EmptyArray, ImageJpeg), <<>>)

\* image_input_to_array of imageio.py.
image_input_to_array(input_data, mime_type, env) ==
    IF input_data.type = "ndarray"
    THEN Resolved(Ok(input_data.arr, ImageJpeg), <<"array">>)
    ELSE IF input_data.type = "bytes"
    THEN LET a == image_bytes_to_array(input_data.bytes)
         IN  Resolved(IF a.ok
                      THEN Ok(a.array, IF mime_type # NoMime THEN mime_type
                                       ELSE ImageJpeg)
                      ELSE a, <<"bytes">>)
    ELSE IF input_data.type = "str"
    THEN IF \/ startswith(input_data.text, <<"http://">>)
            \/ startswith(input_data.text, <<"https://">>)
         THEN LET a == image_url_to_array(input_data.text, env)
              IN  Resolved(IF a.ok THEN Ok(a.array, ImageJpeg) ELSE a, <<"url">>)
         ELSE IF env.exists
         THEN LET a == image_file_to_array(input_data.text, env)
              IN  Resolved(IF a.ok THEN Ok(a.array, ImageJpeg) ELSE a, <<"file">>)
         ELSE LET a == image_base64_to_array(input_data.text)
              IN  IF ~a.ok /\ a.error \in {"binascii.Error", "ValueError"}
                  THEN Resolved(Ok(EmptyArray, ImageJpeg), <<"base64">>)
                  ELSE Resolved(a, <<"base64">>)
    ELSE Resolved(Ok(EmptyArray, ImageJpeg), <<>>)

\* base64_to_bytes of imageio-v2.py: the bytes alone.
base64_to_bytes_v2(base64_str) ==
    IF startswith(base64_str, <<"data", ":">>)
    THEN LET parts == split_once(base64_str, ",")
         IN  IF Len(parts) < 2
             THEN [ok |-> FALSE, bytes |-> <<>>, error |-> "IndexError"]
             ELSE b64decode(parts[2])
    ELSE b64decode(base64_str)

\* image_base64_to_array of imageio-v2.py.
image_base64_to_array_v2(base64_str) ==
    LET b == base64_to_bytes_v2(base64_str)
    IN  IF ~b.ok THEN Fail(b.error) ELSE image_bytes_to_array(b.bytes)

\* image_input_to_array of imageio-v2.py: the array alone.
image_input_to_array_v2(input_data, env) ==
    IF input_data.type = "ndarray"
    THEN Resolved(Ok(input_data.arr, NoMime), <<"array">>)
    ELSE IF input_data.type = "bytes"
    THEN Resolved(image_bytes_to_array(input_data.bytes), <<"bytes">>)
    ELSE IF input_data.type = "str"
    THEN IF \/ startswith(input_data.text, <<"http://">>)
            \/ startswith(input_data.text, <<"https://">>)
         THEN Resolved(image_url_to_array(input_data.text, env), <<"url">>)
         ELSE IF env.exists
         THEN Resolved(image_file_to_array(input_data.text, env), <<"file">>)
         ELSE Resolved(image_base64_to_array_v2(input_data.text), <<"base64">>)
    ELSE Resolved(Fail("TypeError"), <<>>)

NoCall ==
    [module |-> "", input_data |-> Input("other", NoArray, <<>>, <<>>),
     mime_type |-> NoMime,
     env |-> [exists |-> FALSE, fetch |-> FetchFailed, file |-> FileUnreadable]]

(***************************************************************************)
(* The handler of POST /v2/image_insight/extract                           *)
(* (src/app/api/routers/image_handler.py).                                 *)
(***************************************************************************)
HTTP_200_OK == 200

HTTP_415_UNSUPPORTED_MEDIA_TYPE == 415

HTTP_500_INTERNAL_SERVER_ERROR == 500

NoFile == [content_type |-> "", content |-> <<>>]

\* Content types an upload may declare.
ContentTypes == {"image/jpeg", "image/png", "application/pdf", "image/gif"}

\* What await file.read() gives.
UploadContents == {PngBytes("A1"), JunkBytes}

Uploads == [content_type : ContentTypes, content : UploadContents]

\* The form fields url and base64str: a string, or nothing (None or "").
UrlFields == {<<>>, <<"http://", "host/cat.png">>}

Base64Fields == {<<>>, <<"UE5H", "QTEx">>, <<"UE5H", "Q">>}

\* The field metadata: left out (the default {} of the signature, a dict),
\* a text that is no JSON, or the text of a JSON object, with the list under
\* its key labels (NoneLabels when it has no such key).
MetaOmitted == [kind |-> "omitted", labels |-> NoneLabels]

MetaNotJson == [kind |-> "text", labels |-> NoneLabels]

MetaObject(ls) == [kind |-> "object", labels |-> ls]

Metadatas ==
    {MetaOmitted, MetaNotJson}
        \cup {MetaObject(ls) : ls \in ListsOver(Labels, MaxMetaLen) \cup {NoneLabels}}

HttpRequest(file, url, base64str, metadata) ==
    [file |-> file, url |-> url, base64str |-> base64str, metadata |-> metadata]

\* Requests with an upload alone, requests without one, and requests with
\* an upload and a string field beside it.
HttpRequests ==
    {HttpRequest(f, <<>>, <<>>, m) : f \in Uploads, m \in Metadatas}
        \cup {HttpRequest(NoFile, u, b, m) :
                 u \in UrlFields, b \in Base64Fields, m \in Metadatas}
        \cup {HttpRequest(f, u, b, MetaObject(<<"cat">>)) :
                 f \in Uploads, u \in UrlFields \ {<<>>},
                 b \in {<<"UE5H", "QTEx">>}}

\* What each client sends: the first anything, the second uploads of PNG
\* files to be told from dogs, or from nothing.
HttpRequestsOf(r) ==
    IF r = 1 THEN HttpRequests
    ELSE {HttpRequest(f, <<>>, <<>>, m) :
             f \in [content_type : {"image/png"}, content : UploadContents],
             m \in {MetaObject(<<"dog">>), MetaObject(<<>>)}}

\* What the resolution of a request's image finds outside: no file of the
\* string's name, and, for the one request that has its url fetched, an
\* answer with a PNG image or none.
HttpEnvs(req) ==
    [exists : {FALSE},
     fetch : IF req.file = NoFile /\ req.url # <<>>
             THEN {FetchFailed,
                   [ok |-> TRUE, content |-> PngBytes("A1"), ctype |-> ImagePng]}
             ELSE {FetchFailed},
     file : {FileUnreadable}]

\* json.loads(metadata): a dict is no str (TypeError), a text that is no JSON
\* raises json.JSONDecodeError, a JSON object gives the keyword arguments.
json_loads(metadata) ==
    CASE metadata.kind = "omitted" ->
             [ok |-> FALSE, error |-> "TypeError", labels |-> NoneLabels]
      [] metadata.kind = "text" ->
             [ok |-> FALSE, error |-> "JSONDecodeError", labels |-> NoneLabels]
      [] OTHER -> [ok |-> TRUE, error |-> "", labels |-> metadata.labels]

NoRequest == HttpRequest(NoFile, <<>>, <<>>, MetaOmitted)

\* No request in the handler.
NoHttp ==
    [at |-> "idle", request |-> NoRequest, raised |-> "", status_code |-> 0,
     insight |-> NoOutcome]

VARIABLES
    classes,      \* ZeroShotClassifier.classes of the shared instance
    prompts,      \* ZeroShotClassifier.prompts of the shared instance
    simOf,        \* the provider: similarity of the image with each label's prompt
    pc,           \* where each request is
    labels,       \* the labels a request was called with
    held,         \* the list object a request holds (iterated, or given to the processor)
    sims,         \* similarity_scores of a request
    probs,        \* probabilities of a request
    n,            \* len(self.classes) as read for range()
    idx,          \* loop index of the list comprehension
    results,      \* results built so far
    outcome,      \* what process returned or raised
    pre,          \* classes and prompts when the request started
    embedded,     \* whether the request invoked the processor and the model
    call,         \* the last call of image_input_to_array: its arguments and surroundings
    resolved,     \* what that call returned or raised
    loaded,       \* whether __load_model set self.model and self.processor
    prev,         \* an earlier call of process: its labels and what it gave
    last,         \* the most recent direct call that changed the classes
    http          \* the handler of /v2/image_insight/extract: each client's request and its answer

vars == <<classes, prompts, simOf, pc, labels, held, sims, probs, n, idx,
          results, outcome, pre, embedded, call, resolved, loaded, prev, last,
          http>>

resolution == <<call, resolved>>

classifier == <<classes, prompts, simOf, pc, labels, held, sims, probs, n, idx,
                results, outcome, pre, embedded, loaded, prev, last>>

locals == <<held, sims, probs, n, idx, results>>

shared == <<classes, prompts>>

NoPre == [classes |-> <<>>, prompts |-> <<>>]

NoPrev == [labels |-> <<>>, outcome |-> NoOutcome]

\* No set_classes or reset_classes since __init__.
NoLast == [call |-> "__init__", classes |-> <<>>]

\* ZeroShotClassifier.__init__: classes = [], prompts = [].
Constructed ==
    /\ classes = <<>>
    /\ prompts = <<>>
    /\ pc = [r \in Requests |-> "idle"]
    /\ labels = [r \in Requests |-> <<>>]
    /\ held = [r \in Requests |-> <<>>]
    /\ sims = [r \in Requests |-> <<>>]
    /\ probs = [r \in Requests |-> <<>>]
    /\ n = [r \in Requests |-> 0]
    /\ idx = [r \in Requests |-> 0]
    /\ results = [r \in Requests |-> <<>>]
    /\ outcome = [r \in Requests |-> NoOutcome]
    /\ pre = [r \in Requests |-> NoPre]
    /\ embedded = [r \in Requests |-> FALSE]
    /\ call = NoCall
    /\ resolved = NoResolved
    /\ prev = NoPrev
    /\ last = NoLast
    /\ http = [r \in Requests |-> NoHttp]

\* __load_model found the model and the processor of model_name.
ModelLoaded == loaded = TRUE

\* Any provider.
Init == Constructed /\ ModelLoaded /\ simOf \in [Labels -> SimCodes]

\* A provider that tells the labels apart.
DistinctProvider == simOf = [l \in Labels |-> IF l = "cat" THEN 2 ELSE 0]

InitDistinct == Constructed /\ ModelLoaded /\ DistinctProvider

\* A provider whose image embedding or text embeddings may have zero norm:
\* the similarity of a label whose embeddings cannot be normalised is nan.
InitNorm ==
    Constructed /\ ModelLoaded /\ simOf \in [Labels -> SimCodes \cup {NaN}]

\* __load_model with any model identifier: from_pretrained returns, or it
\* raises and the except clause prints and returns.
InitLoad == Constructed /\ loaded \in BOOLEAN /\ DistinctProvider

\* A request ends by raising: its locals are gone.
Raise(r, err) ==
    /\ pc' = [pc EXCEPT ![r] = "done"]
    /\ outcome' = [outcome EXCEPT ![r] = Raised(err)]
    /\ held' = [held EXCEPT ![r] = <<>>]
    /\ sims' = [sims EXCEPT ![r] = <<>>]
    /\ probs' = [probs EXCEPT ![r] = <<>>]
    /\ n' = [n EXCEPT ![r] = 0]
    /\ idx' = [idx EXCEPT ![r] = 0]
    /\ results' = [results EXCEPT ![r] = <<>>]

\* ClassifierProcessor.process: labels = kwargs.get('labels').
process_call(r, ls) ==
    /\ pc[r] = "idle"
    /\ pc' = [pc EXCEPT ![r] = "set_classes"]
    /\ labels' = [labels EXCEPT ![r] = ls]
    /\ pre' = [pre EXCEPT ![r] = [classes |-> classes, prompts |-> prompts]]
    /\ UNCHANGED <<shared, simOf, locals, outcome, embedded>>

\* set_classes: self.classes = classes.
set_classes_assign(r) ==
    /\ pc[r] = "set_classes"
    /\ classes' = labels[r]
    /\ pc' = [pc EXCEPT ![r] = "set_classes_iter"]
    /\ UNCHANGED <<prompts, simOf, labels, locals, outcome, pre, embedded>>

\* set_classes: the comprehension takes iter(self.classes); None is not iterable.
set_classes_iter(r) ==
    /\ pc[r] = "set_classes_iter"
    /\ IF classes = NoneLabels
       THEN Raise(r, "TypeError")
       ELSE /\ held' = [held EXCEPT ![r] = classes]
            /\ pc' = [pc EXCEPT ![r] = "set_classes_store"]
            /\ UNCHANGED <<sims, probs, n, idx, results, outcome>>
    /\ UNCHANGED <<shared, simOf, labels, pre, embedded>>

\* Mutant: the prompts of a request added to those the instance holds.
set_classes_store_appending(r) ==
    /\ pc[r] = "set_classes_store"
    /\ prompts' = prompts \o make_prompts(held[r])
    /\ held' = [held EXCEPT ![r] = <<>>]
    /\ pc' = [pc EXCEPT ![r] = "classify_image"]
    /\ UNCHANGED <<classes, simOf, labels, sims, probs, n, idx, results,
                   outcome, pre, embedded>>

\* set_classes: self.prompts = [f"a photo of a {label}" for label in ...].
set_classes_store(r) ==
    /\ pc[r] = "set_classes_store"
    /\ prompts' = make_prompts(held[r])
    /\ held' = [held EXCEPT ![r] = <<>>]
    /\ pc' = [pc EXCEPT ![r] = "classify_image"]
    /\ UNCHANGED <<classes, simOf, labels, sims, probs, n, idx, results,
                   outcome, pre, embedded>>

\* Mutant: classify_image without its guard on self.prompts.
classify_image_check_unguarded(r) ==
    /\ pc[r] = "classify_image"
    /\ pc' = [pc EXCEPT ![r] = "classify_image_embed"]
    /\ UNCHANGED <<shared, simOf, labels, locals, outcome, pre, embedded>>

\* classify_image: if not self.prompts: raise ValueError("No classes have been set ...").
classify_image_check(r) ==
    /\ pc[r] = "classify_image"
    /\ IF prompts = <<>>
       THEN Raise(r, "ValueError")
       ELSE /\ pc' = [pc EXCEPT ![r] = "classify_image_embed"]
            /\ UNCHANGED <<locals, outcome>>
    /\ UNCHANGED <<shared, simOf, labels, pre, embedded>>

\* Mutant: the similarity of a prompt depends on its position.
compute_similarity_by_position(text) ==
    [k \in DOMAIN text |-> (simOf[text[k][2]] + 2 * (k - 1)) % 4]

\* The model's text and image embeddings, normalised and multiplied:
\* one raw similarity per prompt, in prompt order.
compute_similarity(text) == [k \in DOMAIN text |-> simOf[text[k][2]]]

\* classify_image: self.processor(text=self.prompts, ...), self.model(**inputs),
\* compute_similarity, to_probabilities.  An instance whose model failed to
\* load has no attribute processor; a processor given no text fails.
classify_image_embed(r) ==
    /\ pc[r] = "classify_image_embed"
    /\ embedded' = [embedded EXCEPT ![r] = loaded]
    /\ IF ~loaded
       THEN Raise(r, "AttributeError")
       ELSE IF prompts = <<>>
       THEN Raise(r, "ProcessorError")
       ELSE /\ held' = [held EXCEPT ![r] = prompts]
            /\ sims' = [sims EXCEPT ![r] = compute_similarity(prompts)]
            /\ probs' = [probs EXCEPT ![r] =
                            to_probabilities(compute_similarity(prompts))]
            /\ pc' = [pc EXCEPT ![r] = "classify_image_len"]
            /\ UNCHANGED <<n, idx, results, outcome>>
    /\ UNCHANGED <<shared, simOf, labels, pre>>

\* Mutant: the comprehension stops one label short.
classify_image_len_short(r) ==
    /\ pc[r] = "classify_image_len"
    /\ IF classes = NoneLabels
       THEN Raise(r, "TypeError")
       ELSE /\ n' = [n EXCEPT ![r] = Len(classes) - 1]
            /\ idx' = [idx EXCEPT ![r] = 0]
            /\ results' = [results EXCEPT ![r] = <<>>]
            /\ pc' = [pc EXCEPT ![r] = "classify_image_loop"]
            /\ UNCHANGED <<held, sims, probs, outcome>>
    /\ UNCHANGED <<shared, simOf, labels, pre, embedded>>

\* classify_image: range(len(self.classes)) of the list comprehension.
classify_image_len(r) ==
    /\ pc[r] = "classify_image_len"
    /\ IF classes = NoneLabels
       THEN Raise(r, "TypeError")
       ELSE /\ n' = [n EXCEPT ![r] = Len(classes)]
            /\ idx' = [idx EXCEPT ![r] = 0]
            /\ results' = [results EXCEPT ![r] = <<>>]
            /\ pc' = [pc EXCEPT ![r] = "classify_image_loop"]
            /\ UNCHANGED <<held, sims, probs, outcome>>
    /\ UNCHANGED <<shared, simOf, labels, pre, embedded>>

\* classify_image: {"label": self.classes[i], "confidence": float(probabilities[i])}.
classify_image_entry(r) ==
    /\ pc[r] = "classify_image_loop"
    /\ idx[r] < n[r]
    /\ IF classes = NoneLabels
       THEN Raise(r, "TypeError")
       ELSE IF idx[r] + 1 > Len(classes) \/ idx[r] + 1 > Len(probs[r])
       THEN Raise(r, "IndexError")
       ELSE /\ results' = [results EXCEPT ![r] =
                  Append(@, [label |-> classes[idx[r] + 1],
                             confidence |-> probs[r][idx[r] + 1]])]
            /\ idx' = [idx EXCEPT ![r] = @ + 1]
            /\ UNCHANGED <<pc, held, sims, probs, n, outcome>>
    /\ UNCHANGED <<shared, simOf, labels, pre, embedded>>

\* Mutant: prediction = results[cls_idx] taken after results.sort(...).
classify_image_return_after_sort(r) ==
    /\ pc[r] = "classify_image_loop"
    /\ idx[r] = n[r]
    /\ LET cls_idx == argmax(probs[r])
       IN  IF cls_idx > Len(results[r])
           THEN outcome' = [outcome EXCEPT ![r] = Raised("IndexError")]
           ELSE outcome' = [outcome EXCEPT ![r] =
                    Returned(sort_results(results[r])[cls_idx],
                             sort_results(results[r]))]
    /\ pc' = [pc EXCEPT ![r] = "done"]
    /\ UNCHANGED <<shared, simOf, labels, locals, pre, embedded>>

\* classify_image: cls_idx = np.argmax(probabilities); prediction = results[cls_idx];
\* results.sort(...); return {...}.
classify_image_return(r) ==
    /\ pc[r] = "classify_image_loop"
    /\ idx[r] = n[r]
    /\ LET cls_idx == argmax(probs[r])
       IN  IF cls_idx > Len(results[r])
           THEN outcome' = [outcome EXCEPT ![r] = Raised("IndexError")]
           ELSE outcome' = [outcome EXCEPT ![r] =
                    Returned(results[r][cls_idx], sort_results(results[r]))]
    /\ pc' = [pc EXCEPT ![r] = "done"]
    /\ UNCHANGED <<shared, simOf, labels, locals, pre, embedded>>

\* The caller has its answer; the request slot is free for the next call.
process_exit(r) ==
    /\ pc[r] = "done"
    /\ pc' = [pc EXCEPT ![r] = "idle"]
    /\ labels' = [labels EXCEPT ![r] = <<>>]
    /\ held' = [held EXCEPT ![r] = <<>>]
    /\ sims' = [sims EXCEPT ![r] = <<>>]
    /\ probs' = [probs EXCEPT ![r] = <<>>]
    /\ n' = [n EXCEPT ![r] = 0]
    /\ idx' = [idx EXCEPT ![r] = 0]
    /\ results' = [results EXCEPT ![r] = <<>>]
    /\ outcome' = [outcome EXCEPT ![r] = NoOutcome]
    /\ pre' = [pre EXCEPT ![r] = NoPre]
    /\ embedded' = [embedded EXCEPT ![r] = FALSE]
    /\ UNCHANGED <<shared, simOf>>

Step(r) ==
    \/ set_classes_assign(r)
    \/ set_classes_iter(r)
    \/ set_classes_store(r)
    \/ classify_image_check(r)
    \/ classify_image_embed(r)
    \/ classify_image_len(r)
    \/ classify_image_entry(r)
    \/ classify_image_return(r)
    \/ process_exit(r)

\* Requests on worker threads: any interleaving of their steps.
Next ==
    /\ \E r \in Requests :
           \/ \E ls \in DisjointInputs(r) : process_call(r, ls)
           \/ Step(r)
    /\ UNCHANGED <<resolution, loaded, prev, last, http>>

Spec == InitDistinct /\ [][Next]_vars

\* Requests served one at a time, as the async handler on the one event loop does.
NoneRunning(r) == \A q \in Requests \ {r} : pc[q] = "idle"

NextSeq ==
    /\ \E r \in Requests :
           /\ NoneRunning(r)
           /\ \/ \E ls \in LabelInputs : process_call(r, ls)
              \/ Step(r)
    /\ UNCHANGED <<resolution, loaded, prev, last, http>>

SpecSeq == Init /\ [][NextSeq]_vars

\* The caller keeps what a call of process was given and what it gave.
process_exit_remember(r) ==
    /\ process_exit(r)
    /\ prev' = [labels |-> labels[r], outcome |-> outcome[r]]

\* Requests served one at a time; the caller may keep the answer of any of
\* them to compare it with a later one.
NextHist ==
    /\ \E r \in Requests :
           /\ NoneRunning(r)
           /\ \/ /\ \/ \E ls \in HistInputs : process_call(r, ls)
                    \/ Step(r)
                 /\ UNCHANGED prev
              \/ process_exit_remember(r)
    /\ UNCHANGED <<resolution, loaded, last, http>>

SpecHist == Init /\ [][NextHist]_vars

frames == <<simOf, pc, labels, locals, outcome, pre, embedded>>

\* set_classes called by a user of the class: the whole call.  With None the
\* comprehension raises after self.classes is assigned.
set_classes(cls) ==
    /\ \A r \in Requests : pc[r] = "idle"
    /\ classes' = cls
    /\ prompts' = IF cls = NoneLabels THEN prompts ELSE make_prompts(cls)
    /\ last' = [call |-> "set_classes", classes |-> cls]
    /\ UNCHANGED frames

\* Mutant: reset_classes that leaves the prompts.
reset_classes_keeping_prompts ==
    /\ \A r \in Requests : pc[r] = "idle"
    /\ classes' = <<>>
    /\ UNCHANGED prompts
    /\ last' = [call |-> "reset_classes", classes |-> classes]
    /\ UNCHANGED frames

\* reset_classes: self.classes = [], self.prompts = [].
reset_classes ==
    /\ \A r \in Requests : pc[r] = "idle"
    /\ classes' = <<>>
    /\ prompts' = <<>>
    /\ last' = [call |-> "reset_classes", classes |-> classes]
    /\ UNCHANGED frames

\* classify_image called by a user of the class, with the classes as they are.
classify_image_call(r) ==
    /\ pc[r] = "idle"
    /\ pc' = [pc EXCEPT ![r] = "classify_image"]
    /\ labels' = [labels EXCEPT ![r] = classes]
    /\ pre' = [pre EXCEPT ![r] = [classes |-> classes, prompts |-> prompts]]
    /\ UNCHANGED <<shared, simOf, locals, outcome, embedded>>

classify_image_step(r) ==
    \/ classify_image_check(r)
    \/ classify_image_embed(r)
    \/ classify_image_len(r)
    \/ classify_image_entry(r)
    \/ classify_image_return(r)
    \/ process_exit(r)

\* Any sequence of set_classes, reset_classes and classify_image calls on one
\* ZeroShotClassifier, one call at a time.
NextApi ==
    /\ \/ \E cls \in LabelInputs : set_classes(cls)
       \/ reset_classes
       \/ \E r \in Requests :
              /\ NoneRunning(r)
              /\ classify_image_call(r) \/ classify_image_step(r)
              /\ UNCHANGED last
    /\ UNCHANGED <<resolution, loaded, prev, http>>

SpecApi == InitDistinct /\ [][NextApi]_vars

\* classify_image from line 81 on: cls_idx, results, prediction, the sort.
classify_image_results(cls, probabilities) ==
    LET cls_idx == argmax(probabilities)
        rs == [i \in 1..Len(cls) |->
                  [label |-> cls[i], confidence |-> probabilities[i]]]
    IN  IF cls_idx > Len(rs) THEN Raised("IndexError")
        ELSE Returned(rs[cls_idx], sort_results(rs))

\* classify_image as one call on the classes and prompts the instance holds.
classify_image(cls, prm) ==
    IF prm = <<>> THEN Raised("ValueError")
    ELSE IF ~loaded THEN Raised("AttributeError")
    ELSE IF cls = NoneLabels THEN Raised("TypeError")
    ELSE IF Len(cls) > Len(prm) THEN Raised("IndexError")
    ELSE classify_image_results(cls, to_probabilities(compute_similarity(prm)))

\* ClassifierProcessor.process as one call: labels = kwargs.get('labels'),
\* set_classes(labels), classify_image(image_array).  What it leaves in
\* classes and prompts, and what it returns or raises.
ClassifierProcessor_process(ls, prm) ==
    IF ls = NoneLabels
    THEN [classes |-> NoneLabels, prompts |-> prm, insight |-> Raised("TypeError")]
    ELSE [classes |-> ls, prompts |-> make_prompts(ls),
          insight |-> classify_image(ls, make_prompts(ls))]

\* AppFacade.process_image: image_height, image_width = image_array.shape[:2]
\* (np.empty(0) has one dimension: ValueError), then processor.process.
AppFacade_process_image(image_array, ls, cls, prm) ==
    IF image_array = EmptyArray
    THEN [classes |-> cls, prompts |-> prm, insight |-> Raised("ValueError")]
    ELSE ClassifierProcessor_process(ls, prm)

\* What the try block gave: the exception raised ("" when it reached
\* status_code = HTTP_200_OK) and what its calls left behind.
Tried(image, cls, prm, raised, insight) ==
    [resolved |-> image, classes |-> cls, prompts |-> prm, raised |-> raised,
     insight |-> insight]

\* response = facade.process_image(image_array, **metadata).
process_image_facade(image, response) ==
    Tried(image, response.classes, response.prompts, response.insight.error,
          response.insight)

\* The try block of process_image once the image is resolved:
\* metadata = json.loads(metadata), then the call of the facade.
process_image_loaded(image, kwargs, cls, prm) ==
    IF image.kind = "raise" THEN Tried(image, cls, prm, image.error, NoOutcome)
    ELSE IF ~kwargs.ok THEN Tried(image, cls, prm, kwargs.error, NoOutcome)
    ELSE process_image_facade(
             image, AppFacade_process_image(image.array, kwargs.labels, cls, prm))

\* The try block of process_image from the call of image_input_to_array on.
process_image_try(input_data, mime_type, metadata, env, cls, prm) ==
    process_image_loaded(image_input_to_array(input_data, mime_type, env),
                         json_loads(metadata), cls, prm)

\* process_image from the end of the try block: status 200 when it raised
\* nothing; except Exception (every exception of the try block, HTTPException
\* included) gives status 500, and so does the finally block, whose
\* Response(**response) of a response without insight fails validation.
process_image(req, raised, insight) ==
    [at |-> "answered", request |-> req, raised |-> raised,
     status_code |-> IF raised = "" THEN HTTP_200_OK
                     ELSE HTTP_500_INTERNAL_SERVER_ERROR,
     insight |-> insight]

\* The handler runs the rest of its try block and answers; nothing else runs
\* on the event loop meanwhile.
process_image_rest(r, req, input_data, mime_type, env) ==
    \E done \in {process_image_try(input_data, mime_type, req.metadata, env,
                                   classes, prompts)} :
        /\ call' = [module |-> "imageio", input_data |-> input_data,
                    mime_type |-> mime_type, env |-> env]
        /\ resolved' = done.resolved
        /\ classes' = done.classes
        /\ prompts' = done.prompts
        /\ http' = [http EXCEPT ![r] = process_image(req, done.raised, done.insight)]

\* A request comes in: the handler runs up to await file.read() for an
\* accepted upload, and to its end otherwise.
process_image_receive(r, req, env) ==
    /\ http[r].at # "reading"
    /\ IF req.file # NoFile
       THEN IF req.file.content_type \notin {"image/jpeg", "image/png", "application/pdf"}
            THEN /\ http' = [http EXCEPT ![r] =
                                process_image(req, "HTTPException(415)", NoOutcome)]
                 /\ UNCHANGED <<shared, resolution>>
            ELSE /\ http' = [http EXCEPT ![r] = [NoHttp EXCEPT !.at = "reading",
                                                               !.request = req]]
                 /\ UNCHANGED <<shared, resolution>>
       ELSE IF req.url # <<>>
       THEN process_image_rest(r, req, Input("str", NoArray, <<>>, req.url),
                               NoMime, env)
       ELSE IF req.base64str # <<>>
       THEN process_image_rest(r, req, Input("str", NoArray, <<>>, req.base64str),
                               NoMime, env)
       ELSE /\ http' = [http EXCEPT ![r] =
                           process_image(req, "HTTPException(415)", NoOutcome)]
            /\ UNCHANGED <<shared, resolution>>
    /\ UNCHANGED <<frames, loaded, prev, last>>

\* await file.read() returns: the handler runs from line 121 to its end.
process_image_resume(r, env) ==
    /\ http[r].at = "reading"
    /\ process_image_rest(r, http[r].request,
                          Input("bytes", NoArray, http[r].request.file.content, <<>>),
                          Str(http[r].request.file.content_type), env)
    /\ UNCHANGED <<frames, loaded, prev, last>>

\* Requests on the one event loop: a handler gives way at its await only.
NextHttp ==
    \E r \in Requests :
        \/ \E req \in HttpRequestsOf(r) :
               \E env \in HttpEnvs(req) : process_image_receive(r, req, env)
        \/ \E env \in HttpEnvs(http[r].request) : process_image_resume(r, env)

SpecHttp == InitDistinct /\ [][NextHttp]_vars

\* Any provider of the embeddings of three labels.
InitPerm == Constructed /\ ModelLoaded /\ simOf \in [PermLabels -> SimCodes]

\* ClassifierProcessor.process from its call to its return, no other request
\* being served meanwhile: set_classes(labels), classify_image(image_array).
process_served(r, ls) ==
    /\ pc[r] = "idle"
    /\ \E done \in {ClassifierProcessor_process(ls, prompts)} :
           /\ classes' = done.classes
           /\ prompts' = done.prompts
           /\ outcome' = [outcome EXCEPT ![r] = done.insight]
           /\ embedded' = [embedded EXCEPT ![r] = done.prompts # <<>>]
    /\ labels' = [labels EXCEPT ![r] = ls]
    /\ pre' = [pre EXCEPT ![r] = [classes |-> classes, prompts |-> prompts]]
    /\ pc' = [pc EXCEPT ![r] = "done"]
    /\ UNCHANGED <<simOf, locals>>

\* Requests served one at a time, each with a label set in some order; the
\* caller may keep the answer of any of them to compare it with a later one.
NextPerm ==
    /\ \E r \in Requests :
           /\ NoneRunning(r)
           /\ \/ /\ \/ \E ls \in PermInputs : process_served(r, ls)
                    \/ process_exit(r)
                 /\ UNCHANGED prev
              \/ process_exit_remember(r)
    /\ UNCHANGED <<resolution, loaded, last, http>>

SpecPerm == InitPerm /\ [][NextPerm]_vars

\* Requests served one at a time with any embeddings, zero vectors included.
SpecNorm == InitNorm /\ [][NextSeq]_vars

\* Requests served one at a time by an instance built with any model identifier.
SpecLoad == InitLoad /\ [][NextSeq]_vars

\* The handler resolves the image of a request: one call of image_input_to_array.
\* os.path.exists of the empty string is False.
image_input_to_array_call(input_data, mime_type, env) ==
    /\ input_data.text = <<>> => ~env.exists
    /\ call' = [module |-> "imageio", input_data |-> input_data,
                mime_type |-> mime_type, env |-> env]
    /\ resolved' = image_input_to_array(input_data, mime_type, env)
    /\ UNCHANGED <<classifier, http>>

\* The same call on the function of imageio-v2.py.
image_input_to_array_v2_call(input_data, env) ==
    /\ input_data.text = <<>> => ~env.exists
    /\ call' = [module |-> "imageio-v2", input_data |-> input_data,
                mime_type |-> NoMime, env |-> env]
    /\ resolved' = image_input_to_array_v2(input_data, env)
    /\ UNCHANGED <<classifier, http>>

NextResolve ==
    \E input_data \in Inputs, env \in Envs :
        \/ \E mime_type \in MimeHints :
               image_input_to_array_call(input_data, mime_type, env)
        \/ image_input_to_array_v2_call(input_data, env)

SpecResolve == InitDistinct /\ [][NextResolve]_vars

(***************************************************************************)
(* The claims about the classifier.                                        *)
(***************************************************************************)
EntryLabels(rs) == {rs[k].label : k \in DOMAIN rs}

Count(l, s) == Cardinality({k \in DOMAIN s : s[k] = l})

CountLabel(l, rs) == Cardinality({k \in DOMAIN rs : rs[k].label = l})

Confidences(rs) == [k \in DOMAIN rs |-> rs[k].confidence]

Tolerance == ProbScale \div 1000000

Maximum(v) == CHOOSE x \in Range(v) : \A y \in Range(v) : y <= x

UniqueMax(v) == Cardinality({k \in DOMAIN v : v[k] = Maximum(v)}) = 1

EntryAt(r, k) == [label |-> labels[r][k], confidence |-> probs[r][k]]

\* C1: under every interleaving of two requests with disjoint label sets, the
\* labels of a request's prediction and other_predictions are exactly its own
\* labels, never a label of the other request.
C1_OwnLabelsOnly ==
    \A r \in Requests :
        outcome[r].kind = "result" =>
            /\ EntryLabels(outcome[r].other_predictions) = Range(labels[r])
            /\ outcome[r].prediction.label \in Range(labels[r])

\* C2: when process has returned or raised, classes and prompts of the shared
\* classifier hold the values they held before the request started.
C2_ScorerStateRestored ==
    \A r \in Requests :
        pc[r] = "done" =>
            /\ classes = pre[r].classes
            /\ prompts = pre[r].prompts

\* C3: a successful classify with N labels returns other_predictions with
\* exactly N entries whose labels are, as a multiset, the request's labels.
C3_OneEntryPerLabel ==
    \A r \in Requests :
        outcome[r].kind = "result" =>
            /\ Len(outcome[r].other_predictions) = Len(labels[r])
            /\ \A l \in Labels :
                   CountLabel(l, outcome[r].other_predictions) = Count(l, labels[r])

C3_Witness ==
    \E r \in Requests :
        /\ outcome[r].kind = "result"
        /\ Len(labels[r]) = 3
        /\ labels[r][1] = labels[r][3]
        /\ labels[r][1] # labels[r][2]

\* C4: every confidence of a result lies in [0, 1] and the confidences of
\* other_predictions sum to 1.0 within 1e-6.
C4_ConfidencesAreDistribution ==
    \A r \in Requests :
        outcome[r].kind = "result" =>
            LET cs == Confidences(outcome[r].other_predictions)
            IN  /\ \A k \in DOMAIN cs : cs[k] >= 0 /\ cs[k] <= ProbScale
                /\ outcome[r].prediction.confidence >= 0
                /\ outcome[r].prediction.confidence <= ProbScale
                /\ SumSeq(cs) - ProbScale <= Tolerance
                /\ ProbScale - SumSeq(cs) <= Tolerance

C4_Witness ==
    \E r \in Requests :
        /\ outcome[r].kind = "result"
        /\ Len(outcome[r].other_predictions) = 3
        /\ outcome[r].other_predictions[1].confidence
               > outcome[r].other_predictions[3].confidence

\* C5: a request whose label list is empty fails with the error of
\* classify_image's guard (ValueError, "No classes have been set") before the
\* processor or the model is invoked, and returns no prediction and no
\* other_predictions.
C5_EmptyLabelsRejected ==
    \A r \in Requests :
        (pc[r] = "done" /\ labels[r] = <<>>) =>
            /\ outcome[r].kind = "error"
            /\ outcome[r].error = "ValueError"
            /\ ~embedded[r]
            /\ outcome[r].prediction = NoEntry
            /\ outcome[r].other_predictions = <<>>

\* An empty request served after one that left prompts on the classifier.
C5_Witness ==
    \E r \in Requests :
        /\ pc[r] = "done"
        /\ labels[r] = <<>>
        /\ pre[r].prompts # <<>>
        /\ outcome[r].kind = "error"

\* C9 as stated: prediction is the entry of the label at the argmax index of
\* the raw similarity vector.
C9_TopIsRawArgmax ==
    \A r \in Requests :
        outcome[r].kind = "result" =>
            outcome[r].prediction = EntryAt(r, argmax(sims[r]))

\* C9 as amended: prediction is the entry of the label at the first index of
\* the maximum of the softmax probabilities, taken from the list in label
\* order before the sort; it is the raw argmax whenever the probability at
\* the raw argmax exceeds every probability before it.
C9_TopIsProbabilityArgmax ==
    \A r \in Requests :
        outcome[r].kind = "result" =>
            /\ outcome[r].prediction = EntryAt(r, argmax(probs[r]))
            /\ outcome[r].prediction = results[r][argmax(probs[r])]
            /\ (\A j \in 1..(argmax(sims[r]) - 1) :
                    probs[r][j] < probs[r][argmax(sims[r])])
                   => outcome[r].prediction = EntryAt(r, argmax(sims[r]))

\* The sort moved the entries and the prediction is not the first label's.
C9_Witness ==
    \E r \in Requests :
        /\ outcome[r].kind = "result"
        /\ outcome[r].other_predictions # results[r]
        /\ argmax(probs[r]) > 1

\* C10: when exactly one label attains the maximum raw similarity, the first
\* entry of other_predictions is the prediction (same label and confidence).
C10_FirstIsTop ==
    \A r \in Requests :
        (outcome[r].kind = "result" /\ UniqueMax(sims[r])) =>
            outcome[r].other_predictions[1] = outcome[r].prediction

\* The unique raw maximum is not the first label and another label is one
\* unit in the last place below it.
C10_Witness ==
    \E r \in Requests :
        /\ outcome[r].kind = "result"
        /\ UniqueMax(sims[r])
        /\ argmax(sims[r]) > 1
        /\ \E j \in DOMAIN sims[r] :
               /\ sims[r][j] # Maximum(sims[r])
               /\ probs[r][j] = probs[r][argmax(sims[r])]

\* C11: in every result of classify_image, other_predictions is sorted by
\* confidence in non-increasing order: each entry's confidence is at least
\* the next entry's.
C11_SortedDescending ==
    \A r \in Requests :
        outcome[r].kind = "result" =>
            \A k \in 1..(Len(outcome[r].other_predictions) - 1) :
                outcome[r].other_predictions[k].confidence
                    >= outcome[r].other_predictions[k + 1].confidence

\* Three entries built in increasing order of confidence came back reversed.
C11_Witness ==
    \E r \in Requests :
        /\ outcome[r].kind = "result"
        /\ Len(results[r]) = 3
        /\ results[r][1].confidence < results[r][3].confidence
        /\ outcome[r].other_predictions[1] = results[r][3]
        /\ outcome[r].other_predictions[3] = results[r][1]

Rearrangements(m) ==
    {p \in [1..m -> 1..m] : \A i, j \in 1..m : i # j => p[i] # p[j]}

\* C12: entries of equal confidence appear in other_predictions in the same
\* relative order as their labels in the request's label list: the list is
\* a rearrangement of the entries in label order that never swaps two
\* entries of equal confidence.
C12_TiesKeepLabelOrder ==
    \A r \in Requests :
        outcome[r].kind = "result" =>
            \E p \in Rearrangements(Len(labels[r])) :
                /\ \A k \in DOMAIN p :
                       outcome[r].other_predictions[k] = EntryAt(r, p[k])
                /\ \A i, j \in DOMAIN p :
                       (/\ i < j
                        /\ outcome[r].other_predictions[i].confidence
                               = outcome[r].other_predictions[j].confidence)
                           => p[i] < p[j]

\* Two different labels tied in confidence, in a list of three: every
\* entry has the same confidence and the label order is all that orders them.
C12_Witness ==
    \E r \in Requests :
        /\ outcome[r].kind = "result"
        /\ Len(labels[r]) = 3
        /\ probs[r][1] = probs[r][2]
        /\ labels[r][1] # labels[r][2]
        /\ labels[r][3] = labels[r][1]
        /\ outcome[r].other_predictions[1].label = labels[r][1]
        /\ outcome[r].other_predictions[2].label = labels[r][2]
\* Two label lists that are rearrangements of one another.
IsPermutation(a, b) ==
    /\ Len(a) = Len(b)
    /\ \A l \in Range(a) \cup Range(b) : Count(l, a) = Count(l, b)

\* Two result lists with the same confidences, as multisets.
SameConfidences(a, b) ==
    \A c \in Range(Confidences(a)) \cup Range(Confidences(b)) :
        Count(c, Confidences(a)) = Count(c, Confidences(b))

\* The confidence a result gives a label.
ConfidenceOf(l, rs) == rs[CHOOSE k \in DOMAIN rs : rs[k].label = l].confidence

\* Two result lists with the same labels, the confidence of each label in
\* one within the tolerance of its confidence in the other.
CloseConfidences(a, b) ==
    /\ Len(a) = Len(b)
    /\ \A l \in EntryLabels(a) \cup EntryLabels(b) :
           /\ CountLabel(l, a) = CountLabel(l, b)
           /\ ConfidenceOf(l, a) - ConfidenceOf(l, b) <= Tolerance
           /\ ConfidenceOf(l, b) - ConfidenceOf(l, a) <= Tolerance

\* The labels of the entries that hold the greatest confidence of a result.
TopLabels(rs) ==
    {rs[k].label : k \in {j \in DOMAIN rs : rs[j].confidence = Maximum(Confidences(rs))}}

\* The first label of the list ls, in list order, among those that hold the
\* greatest confidence of the result rs.
FirstTopLabel(ls, rs) ==
    ls[CHOOSE k \in DOMAIN ls :
           /\ ls[k] \in TopLabels(rs)
           /\ \A j \in 1..(k - 1) : ls[j] \notin TopLabels(rs)]

\* A call of process with a rearrangement of an earlier call's labels, both
\* having returned a result.
PermutedPair(r) ==
    /\ outcome[r].kind = "result"
    /\ prev.outcome.kind = "result"
    /\ IsPermutation(prev.labels, labels[r])

\* C13 as stated: for every image and every permutation of the labels,
\* classify returns the same prediction.label and the same multiset of
\* confidences.
C13_PermutationInvariant ==
    \A r \in Requests :
        PermutedPair(r) =>
            /\ outcome[r].prediction.label = prev.outcome.prediction.label
            /\ SameConfidences(outcome[r].other_predictions,
                               prev.outcome.other_predictions)

\* C13 as amended: under every permutation of the labels, other_predictions
\* holds the same labels and the confidence of each label is the same within
\* the tolerance (the float32 sum of the softmax is taken in list order);
\* prediction.label is, in each call, the first label of that call's list
\* among those that hold the greatest confidence, so it is the same in both
\* calls whenever one label alone holds the greatest confidence in each.
C13_PermutationInvariantUntied ==
    \A r \in Requests :
        PermutedPair(r) =>
            /\ CloseConfidences(outcome[r].other_predictions,
                                prev.outcome.other_predictions)
            /\ outcome[r].prediction.label
                   = FirstTopLabel(labels[r], outcome[r].other_predictions)
            /\ prev.outcome.prediction.label
                   = FirstTopLabel(prev.labels, prev.outcome.other_predictions)
            /\ (/\ Cardinality(TopLabels(outcome[r].other_predictions)) = 1
                /\ Cardinality(TopLabels(prev.outcome.other_predictions)) = 1)
                   => outcome[r].prediction.label = prev.outcome.prediction.label

\* Three labels, the second and the third tied at the top, after an earlier
\* call with the same labels in the reverse order: each call gave the tied
\* label that its list has first, and the two calls gave the label below the
\* top confidences that differ.
C13_Witness ==
    \E r \in Requests :
        /\ PermutedPair(r)
        /\ Len(labels[r]) = 3
        /\ prev.labels = <<labels[r][3], labels[r][2], labels[r][1]>>
        /\ TopLabels(outcome[r].other_predictions) = {labels[r][2], labels[r][3]}
        /\ outcome[r].prediction.label = labels[r][2]
        /\ prev.outcome.prediction.label = labels[r][3]
        /\ ConfidenceOf(labels[r][1], outcome[r].other_predictions)
               # ConfidenceOf(labels[r][1], prev.outcome.other_predictions)

\* C14: a call of process with the labels of an earlier call on the same
\* instance, the image being the same, gives what the earlier call gave
\* (prediction, other_predictions and model_name, or the same error),
\* whatever requests were served before or between the two.
C14_Idempotent ==
    \A r \in Requests :
        (/\ pc[r] = "done"
         /\ prev.outcome.kind # "none"
         /\ prev.labels = labels[r]) =>
            outcome[r] = prev.outcome

\* The second of two calls with the same two labels found the labels of
\* another request on the instance and returned a result.
C14_Witness ==
    \E r \in Requests :
        /\ pc[r] = "done"
        /\ prev.outcome.kind = "result"
        /\ prev.labels = labels[r]
        /\ Len(labels[r]) = 2
        /\ pre[r].classes # labels[r]
        /\ pre[r].classes # <<>>
        /\ outcome[r].kind = "result"

\* A request past set_classes: in classify_image, or returned from it.
PromptsBuilt(r) ==
    \/ pc[r] \in {"classify_image", "classify_image_embed",
                  "classify_image_len", "classify_image_loop"}
    \/ pc[r] = "done" /\ labels[r] # NoneLabels

\* C15: set_classes builds one prompt per label, in label order, with the
\* template "a photo of a {label}": prompts is as long as the label list and
\* prompts[i] is the template applied to labels[i]; labels are not
\* deduplicated, so a label given k times has k prompts and k entries in
\* other_predictions.
C15_OnePromptPerLabel ==
    \A r \in Requests :
        /\ PromptsBuilt(r) =>
               /\ Len(prompts) = Len(labels[r])
               /\ \A i \in DOMAIN prompts :
                      prompts[i] = <<"a photo of a ", labels[r][i]>>
               /\ \A l \in Labels :
                      Count(<<"a photo of a ", l>>, prompts) = Count(l, labels[r])
        /\ outcome[r].kind = "result" =>
               \A l \in Labels :
                   CountLabel(l, outcome[r].other_predictions) = Count(l, labels[r])

\* A label given twice, around another one: two prompts and two entries.
C15_Witness ==
    \E r \in Requests :
        /\ outcome[r].kind = "result"
        /\ labels[r] = <<"cat", "dog", "cat">>
        /\ prompts = <<<<"a photo of a ", "cat">>, <<"a photo of a ", "dog">>,
                       <<"a photo of a ", "cat">>>>
        /\ CountLabel("cat", outcome[r].other_predictions) = 2

\* C20: a classifier built with a model identifier whose model cannot be
\* loaded fails with a configuration error; a request with labels served by
\* it never ends with another fault, and never with a result.
C20_UnsupportedModelRejected ==
    \A r \in Requests :
        (/\ ~loaded
         /\ pc[r] = "done"
         /\ labels[r] # NoneLabels
         /\ labels[r] # <<>>) =>
            /\ outcome[r].kind = "error"
            /\ outcome[r].error = "ConfigurationError"

\* C25: under every interleaving of concurrent requests, a result pairs each
\* confidence with the label whose prompt produced it: the classes read for
\* the entries are as many and in the order of the prompts that were scored,
\* entry i holds the label of prompt i and its score, and no request with
\* labels ends with an IndexError.
C25_EntriesPairLabelAndScore ==
    \A r \in Requests :
        /\ (pc[r] = "done" /\ labels[r] # <<>>) => outcome[r].error # "IndexError"
        /\ outcome[r].kind = "result" =>
               /\ Len(results[r]) = Len(held[r])
               /\ \A i \in DOMAIN results[r] :
                      /\ i \in DOMAIN held[r]
                      /\ held[r][i] = <<"a photo of a ", results[r][i].label>>
                      /\ results[r][i].confidence = probs[r][i]

\* C26: under every interleaving of concurrent requests, a request with a
\* non-empty label list never ends with the "No classes have been set" error
\* (ValueError), and a request with an empty list always does: which of the
\* two a request gets depends on its own labels only.
C26_EmptyErrorOnlyForOwnEmptyLabels ==
    \A r \in Requests :
        pc[r] = "done" =>
            /\ labels[r] # <<>> => outcome[r].error # "ValueError"
            /\ labels[r] = <<>> =>
                   outcome[r].kind = "error" /\ outcome[r].error = "ValueError"

\* C21: when the image embedding or the text embedding of one of a request's
\* labels has zero norm, scoring fails with a numeric error and the request
\* gets no result: no prediction and no confidences.
C21_ZeroNormRejected ==
    \A r \in Requests :
        (/\ pc[r] = "done"
         /\ labels[r] # NoneLabels
         /\ \E i \in DOMAIN labels[r] : simOf[labels[r][i]] = NaN) =>
            /\ outcome[r].kind = "error"
            /\ outcome[r].error = "NumericError"
            /\ outcome[r].prediction = NoEntry
            /\ outcome[r].other_predictions = <<>>

\* C22: over any sequence of set_classes, reset_classes and classify_image
\* calls, classify_image returns a result only if the most recent call that
\* changed the classes was a set_classes with a non-empty list; after
\* construction or reset_classes, and until the next set_classes, every
\* classify_image raises ValueError ("No classes have been set") and
\* returns nothing.
C22_ResultOnlyAfterSetClasses ==
    \A r \in Requests :
        /\ outcome[r].kind = "result" =>
               /\ last.call = "set_classes"
               /\ last.classes # <<>>
               /\ last.classes # NoneLabels
        /\ (pc[r] = "done" /\ last.call \in {"__init__", "reset_classes"}) =>
               /\ outcome[r].kind = "error"
               /\ outcome[r].error = "ValueError"
               /\ outcome[r].prediction = NoEntry
               /\ outcome[r].other_predictions = <<>>

\* classify_image called after a reset_classes that cleared two classes.
C22_Witness ==
    \E r \in Requests :
        /\ pc[r] = "done"
        /\ last.call = "reset_classes"
        /\ Len(last.classes) = 2
        /\ last.classes # NoneLabels
        /\ outcome[r].kind = "error"
        /\ outcome[r].error = "ValueError"

(***************************************************************************)
(* The claims about image input resolution.                                *)
(***************************************************************************)
Called == resolved.kind # "none"

IsUrl(text) ==
    startswith(text, <<"http://">>) \/ startswith(text, <<"https://">>)

\* A string that reaches the base64 branch and is not well-formed base64 text.
MalformedBase64Input ==
    /\ call.input_data.type = "str"
    /\ ~IsUrl(call.input_data.text)
    /\ ~call.env.exists
    /\ ~base64_to_bytes(call.input_data.text).ok

\* C6: resolving a string that is no URL, names no existing path and is
\* malformed base64 fails with an error of the base64 variant; the call of
\* imageio.py never returns an array, least of all the empty placeholder.
C6_MalformedBase64Raises ==
    (Called /\ call.module = "imageio" /\ MalformedBase64Input) =>
        /\ resolved.kind = "raise"
        /\ resolved.attempted = <<"base64">>
        /\ resolved.array # EmptyArray

\* The variant the precedence order gives an input.
VariantOf(input_data, env) ==
    CASE input_data.type = "ndarray" -> <<"array">>
      [] input_data.type = "bytes" -> <<"bytes">>
      [] input_data.type = "str" /\ IsUrl(input_data.text) -> <<"url">>
      [] input_data.type = "str" /\ ~IsUrl(input_data.text) /\ env.exists
            -> <<"file">>
      [] input_data.type = "str" /\ ~IsUrl(input_data.text) /\ ~env.exists
            -> <<"base64">>
      [] OTHER -> <<>>

\* C7: the variant is picked by a fixed precedence, first match wins: array
\* passed through, else bytes decoded, else an http(s) string fetched, else an
\* existing path read, else base64; a string that is a URL and an existing
\* path is fetched, and an existing path is never base64-decoded.
C7_Precedence ==
    Called =>
        /\ resolved.attempted = VariantOf(call.input_data, call.env)
        /\ call.input_data.type = "ndarray" =>
               resolved.kind = "return" /\ resolved.array = call.input_data.arr
        /\ (call.input_data.type = "str" /\ IsUrl(call.input_data.text)) =>
               resolved.attempted = <<"url">>
        /\ (call.input_data.type = "str" /\ call.env.exists) =>
               resolved.attempted # <<"base64">>

\* A string that starts with http:// and names an existing path was fetched
\* by the function of imageio.py.
C7_Witness ==
    /\ Called
    /\ call.module = "imageio"
    /\ call.input_data.type = "str"
    /\ IsUrl(call.input_data.text)
    /\ call.env.exists
    /\ resolved.attempted = <<"url">>
    /\ resolved.kind = "return"

\* Whether the operation of the variant an input is given fails.
VariantFails(input_data, env) ==
    CASE VariantOf(input_data, env) = <<"bytes">>
            -> ~image_bytes_to_array(input_data.bytes).ok
      [] VariantOf(input_data, env) = <<"url">>
            -> ~image_url_to_array(input_data.text, env).ok
      [] VariantOf(input_data, env) = <<"file">>
            -> ~image_file_to_array(input_data.text, env).ok
      [] VariantOf(input_data, env) = <<"base64">>
            -> ~image_base64_to_array(input_data.text).ok
      [] OTHER -> FALSE

\* C8: a call of image_input_to_array attempts at most one variant, and when
\* that variant fails the call ends with an error, no other variant tried.
C8_OneVariantFailureRaises ==
    (Called /\ call.module = "imageio") =>
        /\ Len(resolved.attempted) <= 1
        /\ VariantFails(call.input_data, call.env) => resolved.kind = "raise"

\* C16: when the input of image_input_to_array of imageio.py is a pixel
\* array, the array returned is that input, unchanged, and the mime type
\* returned is image/jpeg, whatever mime hint the caller passed.
C16_ArrayPassedThrough ==
    (Called /\ call.module = "imageio" /\ call.input_data.type = "ndarray") =>
        /\ resolved.kind = "return"
        /\ resolved.array = call.input_data.arr
        /\ resolved.mime = <<"image/jpeg">>

\* An array passed with the hint image/png.
C16_Witness ==
    /\ Called
    /\ call.module = "imageio"
    /\ call.input_data.type = "ndarray"
    /\ call.mime_type = <<"image/png">>
    /\ resolved.array = call.input_data.arr
    /\ resolved.mime = <<"image/jpeg">>

\* C17: when the input of image_input_to_array is a string beginning with
\* http:// or https:// and the fetch gives an image, the mime type returned
\* is the content type of the HTTP response headers.
C17_UrlMimeFromHeaders ==
    (/\ Called
     /\ call.module = "imageio"
     /\ call.input_data.type = "str"
     /\ IsUrl(call.input_data.text)
     /\ resolved.kind = "return") =>
        resolved.mime = call.env.fetch.ctype

\* C18: when the input of image_input_to_array is a string naming an
\* existing local path whose extension is known, the mime type returned is
\* the one guessed from the extension (image/png for a .png path).
C18_PathMimeFromExtension ==
    (/\ Called
     /\ call.module = "imageio"
     /\ call.input_data.type = "str"
     /\ ~IsUrl(call.input_data.text)
     /\ call.env.exists
     /\ get_mime_type(call.input_data.text) # NoMime
     /\ resolved.kind = "return") =>
        resolved.mime = get_mime_type(call.input_data.text)

\* A string that reaches the base64 branch.
Base64Input ==
    /\ Called
    /\ call.module = "imageio"
    /\ call.input_data.type = "str"
    /\ ~IsUrl(call.input_data.text)
    /\ ~call.env.exists

\* A string with a data:<mime>;base64, header before base64 text.
Headered(text) ==
    /\ Len(text) >= 6
    /\ SubSeq(text, 1, 2) = <<"data", ":">>
    /\ SubSeq(text, 4, 6) = <<";", "base64", ",">>
    /\ \A k \in 7..Len(text) : text[k] # ","

Payload(text) == IF Headered(text) THEN SubSeq(text, 7, Len(text)) ELSE text

\* C19: for a base64 string with a data:<mime>;base64, header the header is
\* stripped, the bytes decoded are those of the payload after the comma and
\* the mime type returned is the <mime> of the header; for a base64 string
\* without a header the whole string is decoded.
C19_DataHeaderStripped ==
    LET text == call.input_data.text
        image_bytes == b64decode(Payload(text))
        image == image_bytes_to_array(image_bytes.bytes)
    IN  (Base64Input /\ image_bytes.ok /\ image.ok) =>
            /\ resolved.kind = "return"
            /\ resolved.array = image.array
            /\ Headered(text) => resolved.mime = <<text[3]>>

\* A PNG image as base64 text behind a data:image/png;base64, header.
C19_Witness ==
    /\ Base64Input
    /\ call.input_data.text =
           <<"data", ":", "image/png", ";", "base64", ",", "UE5H", "QTEx">>
    /\ resolved.kind = "return"
    /\ resolved.array = "A1"
    /\ resolved.mime = <<"image/png">>

\* C24: image_input_to_array of imageio.py raises TypeError for every input
\* that is neither a pixel array, a byte string nor a string; it never
\* returns the pair (empty array, image/jpeg) for such an input.
C24_OtherTypesRaiseTypeError ==
    (/\ Called
     /\ call.module = "imageio"
     /\ call.input_data.type \notin {"ndarray", "bytes", "str"}) =>
        /\ resolved.kind = "raise"
        /\ resolved.error = "TypeError"
        /\ resolved.array # EmptyArray

(***************************************************************************)
(* The claims about the HTTP handler.                                      *)
(***************************************************************************)
Answered(r) == http[r].at = "answered"

\* A request the handler rejects for unsupported media.
UnsupportedMedia(req) ==
    \/ req.file # NoFile
          /\ req.file.content_type \notin {"image/jpeg", "image/png", "application/pdf"}
    \/ req.file = NoFile /\ req.url = <<>> /\ req.base64str = <<>>

\* C23: a request rejected for unsupported media (no file, url or base64str,
\* or an upload whose content type is none of image/jpeg, image/png and
\* application/pdf) is answered with status 415; the 415 raised inside the
\* handler is not turned into a 500.
C23_UnsupportedMediaIs415 ==
    \A r \in Requests :
        (Answered(r) /\ UnsupportedMedia(http[r].request)) =>
            http[r].status_code = 415

=============================================================================
